---- MODULE Spec2Model ----
(***************************************************************************)
(* The PostGIS provisioner custom resource: lambda_handler hands a         *)
(* CloudFormation lifecycle event to the crhelper dispatcher, which calls  *)
(* create / update / delete and reports one status.  create opens a        *)
(* database connection, runs nine statements in one transaction, commits   *)
(* and closes.  The database and crhelper are the environment: every call  *)
(* into psycopg2 may succeed or raise.                                     *)
(***************************************************************************)
EXTENDS Integers, Sequences, FiniteSets, TLC

\* number of lifecycle events handled in one behaviour
MaxEvents == 3

VARIABLES pc, nEvents, event, invoked, conn, cur, stmt, txn, db, dbAtStart,
          ops, raised, responses, fault, provisioned

vars == <<pc, nEvents, event, invoked, conn, cur, stmt, txn, db, dbAtStart,
          ops, raised, responses, fault, provisioned>>

----------------------------------------------------------------------------
\* Events

RequestTypes == {"Create", "Update", "Delete", "Replace"}

\* a property value is a string: empty or not
Values == {"", "v"}

\* mutant: the lookup of Host is forgotten
KeysRead_NoHost == {"DbName", "Username", "Password"}

\* the ResourceProperties keys create subscripts
KeysRead == {"DbName", "Username", "Password", "Host"}

\* the property keys the PostGisProvisioner resource declares and sets
TemplateProps == {"DBName", "Host", "Password", "ServiceToken", "Username"}

\* the ResourceProperties of the event CloudFormation builds from the template
TemplateEventProps == [k \in TemplateProps |-> "v"]

AllKeys == {"DbName", "Username", "Password", "Host"}

PropsSet ==
    UNION {[K -> Values] : K \in SUBSET AllKeys} \cup {TemplateEventProps}

Events == [RequestType : RequestTypes, ResourceProperties : PropsSet]

NoEvent == [RequestType |-> "none", ResourceProperties |-> << >>]

----------------------------------------------------------------------------
\* The statements of create

\* mutant: the topology extension is created before the tiger geocoder
Statements_Swapped ==
    << "CREATE EXTENSION postgis",
       "CREATE EXTENSION fuzzystrmatch",
       "CREATE EXTENSION postgis_topology",
       "CREATE EXTENSION postgis_tiger_geocoder",
       "ALTER SCHEMA tiger OWNER TO rds_superuser",
       "ALTER SCHEMA tiger_data OWNER TO rds_superuser",
       "ALTER SCHEMA topology OWNER TO rds_superuser",
       "CREATE FUNCTION exec",
       "SELECT exec ALTER TABLE OWNER TO rds_superuser" >>

Statements ==
    << "CREATE EXTENSION postgis",
       "CREATE EXTENSION fuzzystrmatch",
       "CREATE EXTENSION postgis_tiger_geocoder",
       "CREATE EXTENSION postgis_topology",
       "ALTER SCHEMA tiger OWNER TO rds_superuser",
       "ALTER SCHEMA tiger_data OWNER TO rds_superuser",
       "ALTER SCHEMA topology OWNER TO rds_superuser",
       "CREATE FUNCTION exec",
       "SELECT exec ALTER TABLE OWNER TO rds_superuser" >>

\* CREATE EXTENSION / CREATE FUNCTION carry no IF NOT EXISTS / OR REPLACE:
\* they raise when the object is already in the committed catalog d
MustFail(s, d) ==
    /\ s \in {"CREATE EXTENSION postgis", "CREATE EXTENSION fuzzystrmatch",
              "CREATE EXTENSION postgis_tiger_geocoder",
              "CREATE EXTENSION postgis_topology", "CREATE FUNCTION exec"}
    /\ s \in d

\* outcomes of cur.execute(s): it may always raise, and must when MustFail
ExecOutcomes(s, d) == IF MustFail(s, d) THEN {FALSE} ELSE BOOLEAN

Range(q) == {q[i] : i \in 1..Len(q)}

\* the error raised at line 26 and the one raised at line 54
ConnectionError == "ConnectionError"
ProvisioningError == "Exception"

\* mutant: a failed connection is tried a second time
ConnectOps_Retry(ok) ==
    IF ok THEN << <<"connect", TRUE>> >>
          ELSE << <<"connect", FALSE>>, <<"connect", FALSE>> >>

\* psycopg2.connect is called once
ConnectOps(ok) == << <<"connect", ok>> >>

----------------------------------------------------------------------------
\* The dispatcher (crhelper.cfn_handler)

\* mutant: an unknown request type is treated as Create
HandlerFor_Default(t) ==
    CASE t = "Update" -> "update"
      [] t = "Delete" -> "delete"
      [] OTHER -> "create"

HandlerFor(t) ==
    CASE t = "Create" -> "create"
      [] t = "Update" -> "update"
      [] t = "Delete" -> "delete"
      [] OTHER -> "none"

\* mutant: a failure is left to propagate and nothing is sent
Report_OnlySuccess(r) ==
    IF r = "none" THEN << [Status |-> "SUCCESS", Reason |-> r] >> ELSE << >>

Report(r) ==
    << [Status |-> IF r = "none" THEN "SUCCESS" ELSE "FAILED", Reason |-> r] >>

\* the error that leaves lambda_handler: every error is caught
Propagated(r, sent) == IF sent = << >> THEN r ELSE "none"

----------------------------------------------------------------------------
Init ==
    /\ pc = "idle"
    /\ nEvents = 0
    /\ event = NoEvent
    /\ invoked = "none"
    /\ conn = "none"
    /\ cur = "none"
    /\ stmt = 1
    /\ txn = << >>
    /\ db = {}
    /\ dbAtStart = {}
    /\ ops = << >>
    /\ raised = "none"
    /\ responses = << >>
    /\ fault = "none"
    /\ provisioned = FALSE

\* lambda_handler(event, context): a new invocation starts
lambda_handler ==
    /\ pc \in {"idle", "done"}
    /\ nEvents < MaxEvents
    /\ \E e \in Events : event' = e
    /\ nEvents' = nEvents + 1
    /\ invoked' = "none"
    /\ conn' = "none"
    /\ cur' = "none"
    /\ stmt' = 1
    /\ txn' = << >>
    /\ dbAtStart' = db
    /\ ops' = << >>
    /\ raised' = "none"
    /\ responses' = << >>
    /\ fault' = "none"
    /\ pc' = "cfn_handler"
    /\ UNCHANGED <<db, provisioned>>

\* cfn_handler picks the handler of the request type
cfn_handler ==
    /\ pc = "cfn_handler"
    /\ invoked' = HandlerFor(event.RequestType)
    /\ IF HandlerFor(event.RequestType) = "none"
          THEN /\ raised' = "UnsupportedOperation"
               /\ pc' = "send"
          ELSE /\ raised' = raised
               /\ pc' = HandlerFor(event.RequestType)
    /\ UNCHANGED <<nEvents, event, conn, cur, stmt, txn, db, dbAtStart, ops,
                   responses, fault, provisioned>>

\* create, lines 18-26: the four subscripts, then psycopg2.connect
create_connect ==
    /\ pc = "create"
    /\ IF ~(KeysRead \subseteq DOMAIN event.ResourceProperties)
          THEN /\ ops' = Append(ops, <<"KeyError", FALSE>>)
               /\ raised' = ConnectionError
               /\ pc' = "send"
               /\ conn' = conn
          ELSE \E ok \in BOOLEAN :
               /\ ops' = ops \o ConnectOps(ok)
               /\ IF ok THEN /\ conn' = "open"
                             /\ raised' = raised
                             /\ pc' = "cursor"
                        ELSE /\ conn' = conn
                             /\ raised' = ConnectionError
                             /\ pc' = "send"
    /\ UNCHANGED <<nEvents, event, invoked, cur, stmt, txn, db, dbAtStart,
                   responses, fault, provisioned>>

\* create, line 28: conn.cursor(), outside the try
create_cursor ==
    /\ pc = "cursor"
    /\ \E ok \in BOOLEAN :
         /\ ops' = Append(ops, <<"cursor", ok>>)
         /\ IF ok THEN /\ cur' = "open"
                       /\ raised' = raised
                       /\ pc' = "execute"
                  ELSE /\ cur' = cur
                       /\ raised' = "CursorError"
                       /\ pc' = "send"
    /\ UNCHANGED <<nEvents, event, invoked, conn, stmt, txn, db, dbAtStart,
                   responses, fault, provisioned>>

\* create, lines 43-51 and 53-54: the next cur.execute
create_execute ==
    /\ pc = "execute"
    /\ \E ok \in ExecOutcomes(Statements[stmt], db) :
         /\ ops' = Append(ops, <<Statements[stmt], ok>>)
         /\ IF ok THEN /\ txn' = Append(txn, Statements[stmt])
                       /\ raised' = raised
                       /\ IF stmt = Len(Statements)
                             THEN /\ pc' = "commit"
                                  /\ stmt' = stmt
                             ELSE /\ pc' = "execute"
                                  /\ stmt' = stmt + 1
                  ELSE /\ txn' = txn
                       /\ stmt' = stmt
                       /\ raised' = ProvisioningError
                       /\ pc' = "finally"
    /\ UNCHANGED <<nEvents, event, invoked, conn, cur, db, dbAtStart,
                   responses, fault, provisioned>>

\* create, line 52 and 53-54: conn.commit()
create_commit ==
    /\ pc = "commit"
    /\ \E ok \in BOOLEAN :
         /\ ops' = Append(ops, <<"commit", ok>>)
         /\ IF ok THEN /\ db' = db \cup Range(txn)
                       /\ raised' = raised
                  ELSE /\ db' = db
                       /\ raised' = ProvisioningError
    /\ pc' = "finally"
    /\ UNCHANGED <<nEvents, event, invoked, conn, cur, stmt, txn, dbAtStart,
                   responses, fault, provisioned>>

\* create, lines 55-56: cur.close() in the finally clause; an error raised
\* here replaces the one in flight and skips conn.close()
create_cur_close ==
    /\ pc = "finally"
    /\ \E ok \in BOOLEAN :
         /\ ops' = Append(ops, <<"cur.close", ok>>)
         /\ IF ok THEN /\ cur' = "closed"
                       /\ raised' = raised
                       /\ pc' = "conn_close"
                  ELSE /\ cur' = cur
                       /\ raised' = "CloseError"
                       /\ pc' = "send"
    /\ UNCHANGED <<nEvents, event, invoked, conn, stmt, txn, db, dbAtStart,
                   responses, fault, provisioned>>

\* create, lines 57-60: conn.close(), then create returns or re-raises
create_conn_close ==
    /\ pc = "conn_close"
    /\ conn' = "closed"
    /\ ops' = Append(ops, <<"conn.close", TRUE>>)
    /\ provisioned' = (provisioned \/ raised = "none")
    /\ pc' = "send"
    /\ UNCHANGED <<nEvents, event, invoked, cur, stmt, txn, db, dbAtStart,
                   raised, responses, fault>>

\* mutant: update runs the provisioning again
update_Reprovision ==
    /\ pc = "update"
    /\ pc' = "create"
    /\ UNCHANGED <<nEvents, event, invoked, conn, cur, stmt, txn, db,
                   dbAtStart, ops, raised, responses, fault, provisioned>>

\* update(event, context): return
update ==
    /\ pc = "update"
    /\ pc' = "send"
    /\ UNCHANGED <<nEvents, event, invoked, conn, cur, stmt, txn, db,
                   dbAtStart, ops, raised, responses, fault, provisioned>>

\* delete(event, context): return
delete ==
    /\ pc = "delete"
    /\ pc' = "send"
    /\ UNCHANGED <<nEvents, event, invoked, conn, cur, stmt, txn, db,
                   dbAtStart, ops, raised, responses, fault, provisioned>>

\* cfn_handler reports the outcome of the handler to the orchestrator
cfn_send ==
    /\ pc = "send"
    /\ responses' = responses \o Report(raised)
    /\ fault' = Propagated(raised, Report(raised))
    /\ pc' = "done"
    /\ UNCHANGED <<nEvents, event, invoked, conn, cur, stmt, txn, db,
                   dbAtStart, ops, raised, provisioned>>

Next ==
    \/ lambda_handler
    \/ cfn_handler
    \/ create_connect
    \/ create_cursor
    \/ create_execute
    \/ create_commit
    \/ create_cur_close
    \/ create_conn_close
    \/ update
    \/ delete
    \/ cfn_send

Spec == Init /\ [][Next]_vars

----------------------------------------------------------------------------
\* Vocabulary of the properties

Has(name, ok) == \E i \in 1..Len(ops) : ops[i] = <<name, ok>>

Attempts == Cardinality({i \in 1..Len(ops) : ops[i][1] = "connect"})

Handled == pc = "done"

CreateExited == invoked = "create" /\ pc \in {"send", "done"}

CreateReturned == CreateExited /\ raised = "none"

NineInOrder ==
    << "CREATE EXTENSION postgis",
       "CREATE EXTENSION fuzzystrmatch",
       "CREATE EXTENSION postgis_tiger_geocoder",
       "CREATE EXTENSION postgis_topology",
       "ALTER SCHEMA tiger OWNER TO rds_superuser",
       "ALTER SCHEMA tiger_data OWNER TO rds_superuser",
       "ALTER SCHEMA topology OWNER TO rds_superuser",
       "CREATE FUNCTION exec",
       "SELECT exec ALTER TABLE OWNER TO rds_superuser" >>

IsStatement(o) == \E k \in 1..Len(NineInOrder) : o[1] = NineInOrder[k]

IsWork(o) == IsStatement(o) \/ o[1] = "commit"

Failed(kind) == responses = << [Status |-> "FAILED", Reason |-> kind] >>

Succeeded == responses = << [Status |-> "SUCCESS", Reason |-> "none"] >>

RequiredProps == {"DbName", "Username", "Password", "Host"}

MissingProp == \E k \in RequiredProps : k \notin DOMAIN event.ResourceProperties

EmptyProp ==
    \E k \in RequiredProps \cap DOMAIN event.ResourceProperties :
        event.ResourceProperties[k] = ""

----------------------------------------------------------------------------
\* C1: whenever create has returned or raised after acquiring the
\* connection, the connection is closed.
C1_ConnectionClosedOnExit ==
    (CreateExited /\ Has("connect", TRUE)) => conn = "closed"

C3_TemplateSuppliesKeys ==
    (event.RequestType = "Create"
       /\ event.ResourceProperties = TemplateEventProps /\ Handled)
        => (KeysRead \subseteq DOMAIN event.ResourceProperties
            /\ ~Has("KeyError", FALSE))

\* C4: every handled event has exactly one status response, SUCCESS or
\* FAILED, never more than one is sent, and no error leaves lambda_handler.
C4_ExactlyOneResponse ==
    /\ Len(responses) <= 1
    /\ fault = "none"
    /\ Handled => /\ Len(responses) = 1
                  /\ responses[1].Status \in {"SUCCESS", "FAILED"}

C4_Witness ==
    /\ Handled
    /\ invoked = "create"
    /\ raised = "CloseError"
    /\ Len(responses) = 1

\* C5: when a statement or the commit fails on an acquired connection, no
\* later statement or commit runs, nothing is committed, the committed
\* catalog is what it was, and the event is reported FAILED with the
\* provisioning error.
C5_AllOrNothing ==
    \A i \in 1..Len(ops) :
        (Handled /\ Has("connect", TRUE) /\ IsWork(ops[i]) /\ ~ops[i][2])
            => /\ \A j \in (i+1)..Len(ops) : ~IsWork(ops[j])
               /\ ~Has("commit", TRUE)
               /\ db = dbAtStart
               /\ db \in {{}, Range(NineInOrder)}
               /\ Failed(ProvisioningError)

\* C6: a create that returns normally has executed exactly the nine
\* statements in order, committed once, after the ninth statement and
\* before the connection is closed.
C6_NineThenCommit ==
    CreateReturned =>
        /\ SelectSeq(ops, IsStatement) = [k \in 1..9 |-> <<NineInOrder[k], TRUE>>]
        /\ SelectSeq(ops, LAMBDA o : o[1] = "commit") = << <<"commit", TRUE>> >>
        /\ \E c \in 1..Len(ops) :
             /\ ops[c] = <<"commit", TRUE>>
             /\ \A j \in 1..Len(ops) : IsStatement(ops[j]) => j < c
             /\ \A j \in 1..Len(ops) : ops[j][1] = "conn.close" => c < j
        /\ db = Range(NineInOrder)

C6_Witness == CreateReturned /\ Handled /\ conn = "closed"

\* C7: while an Update or Delete event is handled no connection is
\* attempted, nothing is executed, the committed catalog is unchanged, and
\* the reported result is SUCCESS.
C7_UpdateDeleteNoEffect ==
    event.RequestType \in {"Update", "Delete"}
        => /\ Attempts = 0
           /\ ops = << >>
           /\ conn = "none"
           /\ db = dbAtStart
           /\ Handled => Succeeded

C7_Witness ==
    /\ event.RequestType = "Update"
    /\ Handled
    /\ Succeeded
    /\ provisioned
    /\ nEvents = MaxEvents

\* C8: a Create that reaches an already provisioned database is reported
\* FAILED with the provisioning error and leaves the catalog unchanged.
C8_SecondCreateFails ==
    (provisioned /\ dbAtStart = Range(NineInOrder)
       /\ event.RequestType = "Create" /\ Has("connect", TRUE) /\ Handled)
        => (Failed(ProvisioningError) /\ db = dbAtStart)

\* C9: an event of an unknown request type is reported FAILED with
\* UnsupportedOperation; no handler is invoked and nothing touches the
\* database.
C9_UnsupportedOperation ==
    (event.RequestType \notin {"none", "Create", "Update", "Delete"}
       /\ pc \in {"send", "done"})
        => /\ invoked = "none"
           /\ ops = << >>
           /\ db = dbAtStart
           /\ raised = "UnsupportedOperation"
           /\ Handled => Failed("UnsupportedOperation")

C9_Witness ==
    event.RequestType = "Replace" /\ Handled /\ Failed("UnsupportedOperation")

\* C10: when the connection cannot be established, create raises
\* ConnectionError after one attempt and does nothing else: no cursor, no
\* statement, no commit, no close.
C10_ConnectFailure ==
    (Has("connect", FALSE) /\ pc \in {"send", "done"})
        => /\ raised = "ConnectionError"
           /\ Attempts = 1
           /\ ops = << <<"connect", FALSE>> >>
           /\ cur = "none"
           /\ conn = "none"
           /\ db = dbAtStart
           /\ Handled => Failed("ConnectionError")

C10_Witness ==
    Has("connect", FALSE) /\ Handled /\ Failed("ConnectionError")

====
